---- MODULE Spec2Model ----
(***************************************************************************)
(* Model of the property-mail pipeline of src/main.py: the HTTP handler    *)
(* process_property_emails, the per-message pipeline                        *)
(* process_property_email with the retrying extraction call, the validity   *)
(* filter, the record assembly, the BigQuery sink and the mark-as-read ack, *)
(* together with the pure field converters.                                 *)
(*                                                                          *)
(* JSON values are tagged records: [t |-> "null"], [t |-> "num", n |-> i],  *)
(* [t |-> "str", s |-> chars], [t |-> "obj", f |-> fields].  A Python dict  *)
(* is a function from key strings to JSON values, a Python list a sequence. *)
(***************************************************************************)
EXTENDS Integers, Sequences, FiniteSets, TLC

VARIABLES
    unread,     \* mailbox: ids of the messages that carry the UNREAD label
    store,      \* analytical store: the batches insert_rows_json accepted
    runs,       \* number of invocations of the handler started so far
    inv,        \* per invocation slot: the locals of the running handler
    unit        \* harness of the pure-function specifications

vars == <<unread, store, runs, inv, unit>>

---------------------------------------------------------------------------
(* Bounds of the model *)

MaxRuns == 2        \* invocations of the handler in one behaviour
MaxProps == 2       \* records in one extraction response
MaxLen == 3         \* records in an input of the validity filter
MaxStrLen == 3      \* characters in a string handed to a field converter
MaxNum == 25        \* largest float handed to a field converter, in units of 1/Scale
MaxFloorLen == 4    \* characters in a string handed to convert_floor_to_int
MaxDateLen == 4     \* characters in a string handed to convert_japanese_era_date
MaxParts == 2       \* parts of the root of a MIME tree
MaxNested == 1      \* leaves of a nested multipart

(* Program constants *)

\* faulty variant: the retry wrapper gives up after two attempts
StopAfterTwo == 3 - 1

\* faulty variant: a fourth attempt is made
StopAfterFour == 3 + 1

StopAfterAttempt == 3   \* tenacity: stop_after_attempt(3)

MsgIds == {"m1", "m2"}
Slots == {1}

---------------------------------------------------------------------------
(* JSON values *)

JNull == [t |-> "null"]
JInt(n) == [t |-> "int", n |-> n]
JFloat(n) == [t |-> "float", n |-> n]       \* the float n / Scale
JStr(s) == [t |-> "str", s |-> s]           \* s is the sequence of the characters
JObj(f) == [t |-> "obj", f |-> f]

\* the values json.loads yields besides null, int, float, str and dict: the
\* constants Infinity and NaN, and arrays
JInf == [t |-> "inf"]
JNaN == [t |-> "nan"]
JList(items) == [t |-> "list", items |-> items]

\* a call that does not return: the exception it raises
Raises(exc) == [t |-> "raise", exc |-> exc]

\* dict.get(key): the value, or None when the key is absent
DictGet(d, k) == IF k \in DOMAIN d THEN d[k] ELSE JNull

\* dict.update(e): the keys of e overwrite those of d
DictUpdate(d, e) ==
    [k \in (DOMAIN d) \cup (DOMAIN e) |-> IF k \in DOMAIN e THEN e[k] ELSE d[k]]

\* all sequences over S of length at most n
SeqsUpTo(S, n) == UNION {[1..k -> S] : k \in 0..n}

---------------------------------------------------------------------------
(* Strings and numbers.  A string is the sequence of its characters.  A     *)
(* float is a fixed-point decimal, an integer number of units of 1/Scale,   *)
(* so that value * 10000 has a fractional part to lose.                     *)

Scale == 10 * 10000

DigitChars == {"0", "1", "2", "3", "4", "5", "6", "7", "8", "9"}

DigitValue(c) ==
    CASE c = "0" -> 0 [] c = "1" -> 1 [] c = "2" -> 2 [] c = "3" -> 3 [] c = "4" -> 4
      [] c = "5" -> 5 [] c = "6" -> 6 [] c = "7" -> 7 [] c = "8" -> 8 [] c = "9" -> 9

RECURSIVE Pow10(_)
Pow10(k) == IF k <= 0 THEN 1 ELSE 10 * Pow10(k - 1)

\* str.strip(): the string without its leading and trailing blanks
RECURSIVE LStrip(_)
LStrip(str) == IF str # <<>> /\ Head(str) = " " THEN LStrip(Tail(str)) ELSE str

RECURSIVE RStrip(_)
RStrip(str) ==
    IF str # <<>> /\ str[Len(str)] = " " THEN RStrip(SubSeq(str, 1, Len(str) - 1)) ELSE str

Strip(str) == RStrip(LStrip(str))

\* str.replace(',', '')
RemoveCommas(str) == SelectSeq(str, LAMBDA c : c # ",")

\* the value of a string of decimal digits
RECURSIVE DigitsValue(_)
DigitsValue(str) ==
    IF str = <<>> THEN 0
    ELSE 10 * DigitsValue(SubSeq(str, 1, Len(str) - 1)) + DigitValue(str[Len(str)])

\* the value, in units of 1/Scale, of the digits that follow the decimal point
RECURSIVE FractionValue(_, _)
FractionValue(str, place) ==
    IF str = <<>> \/ place > 5 THEN 0
    ELSE DigitValue(Head(str)) * Pow10(5 - place) + FractionValue(Tail(str), place + 1)

\* float(str) on a string of digits, '.', '-', '+' and blanks: blanks are stripped
\* at both ends, a sign may lead, and digits with at most one '.' must follow.
\* ok is FALSE where float raises ValueError.
ParseFloat(str) ==
    LET t == Strip(str)
        signed == t # <<>> /\ Head(t) \in {"-", "+"}
        u == IF signed THEN Tail(t) ELSE t
        dots == {i \in 1..Len(u) : u[i] = "."}
        ok == /\ \A i \in 1..Len(u) : u[i] \in DigitChars \cup {"."}
              /\ Cardinality(dots) <= 1
              /\ \E i \in 1..Len(u) : u[i] \in DigitChars
        dot == IF dots = {} THEN Len(u) + 1 ELSE CHOOSE i \in dots : TRUE
        magnitude == DigitsValue(SubSeq(u, 1, dot - 1)) * Scale
                     + FractionValue(SubSeq(u, dot + 1, Len(u)), 1)
    IN  IF ~ok THEN [ok |-> FALSE]
        ELSE [ok |-> TRUE, val |-> IF signed /\ Head(t) = "-" THEN -magnitude ELSE magnitude]

\* int(x) of the float x = n / (Scale / 10000) ... truncation toward zero of n / d
TruncDiv(n, d) == IF n >= 0 THEN n \div d ELSE -((-n) \div d)

---------------------------------------------------------------------------
(* convert_to_yen (main.py:57-74) *)

\* int(value * 10000) for the float value = n / Scale
IntOfTimes10000(n) == TruncDiv(n, Scale \div 10000)

convert_to_yen(value) ==
    CASE value.t = "null" -> JInt(0)
      [] value.t = "str" ->
            IF Strip(value.s) = <<>> THEN JInt(0)
            ELSE LET x == ParseFloat(RemoveCommas(value.s))
                 IN  IF x.ok THEN JInt(IntOfTimes10000(x.val)) ELSE JNull
      [] value.t = "float" -> JInt(IntOfTimes10000(value.n))
      [] value.t = "int" -> JInt(value.n * 10000)
      [] value.t = "inf" -> Raises("OverflowError")   \* int(inf): not caught at line 72
      [] value.t = "nan" -> JNull                     \* int(nan): ValueError, caught
      [] OTHER -> JNull       \* a list or a dict: TypeError, caught

---------------------------------------------------------------------------
(* convert_floor_to_int (main.py:77-109) *)

\* the characters of a string are single characters; "chi" "ka" stand for the two
\* characters of the basement prefix of main.py:100 and "kai" for the floor suffix
ChiKa == <<"chi", "ka">>

UpperChar(c) ==
    CASE c = "b" -> "B" [] c = "f" -> "F" [] c = "r" -> "R" [] c = "h" -> "H"
      [] c = "s" -> "S" [] c = "t" -> "T" [] OTHER -> c

\* str.upper()
Upper(str) == [i \in 1..Len(str) |-> UpperChar(str[i])]

\* str.isdigit(): not empty, and every character is a digit
IsDigit(str) == str # <<>> /\ \A i \in 1..Len(str) : str[i] \in DigitChars

\* ''.join(filter(str.isdigit, s))
FilterDigits(str) == SelectSeq(str, LAMBDA c : c \in DigitChars)

\* 'sub in s'
ContainsSeq(str, sub) ==
    \E i \in 1..(Len(str) - Len(sub) + 1) : SubSeq(str, i, i + Len(sub) - 1) = sub

\* main.py:93-105 on the text of the value; int('') raises ValueError, which
\* the except clause turns into None
FloorOfText(str) ==
    LET s == Strip(Upper(str))
        digits == FilterDigits(s)
    IN  IF IsDigit(s) THEN JInt(DigitsValue(s))
        ELSE IF ContainsSeq(s, <<"B">>) \/ ContainsSeq(s, ChiKa)
             THEN IF digits = <<>> THEN JNull ELSE JInt(-DigitsValue(digits))
        ELSE IF digits = <<>> THEN JNull
        ELSE JInt(DigitsValue(digits))

DigitChar(d) ==
    CASE d = 0 -> "0" [] d = 1 -> "1" [] d = 2 -> "2" [] d = 3 -> "3" [] d = 4 -> "4"
      [] d = 5 -> "5" [] d = 6 -> "6" [] d = 7 -> "7" [] d = 8 -> "8" [] d = 9 -> "9"

\* the decimal digits of a natural number
RECURSIVE DigitsOf(_)
DigitsOf(n) == IF n < 10 THEN <<DigitChar(n)>> ELSE DigitsOf(n \div 10) \o <<DigitChar(n % 10)>>

\* str(n) for an int
ReprInt(n) == IF n < 0 THEN <<"-">> \o DigitsOf(-n) ELSE DigitsOf(n)

\* the digits after the decimal point of m / Scale, without trailing zeros
RECURSIVE FractionDigits(_, _)
FractionDigits(frac, places) ==
    IF places = 0 THEN <<>>
    ELSE IF frac = 0 THEN <<>>
    ELSE <<DigitChar(frac \div Pow10(places - 1))>>
         \o FractionDigits(frac % Pow10(places - 1), places - 1)

\* str(x) for the float x = n / Scale: the shortest decimal, in exponent form
\* below 0.0001
ReprFloat(n) ==
    LET m == IF n < 0 THEN -n ELSE n
        sign == IF n < 0 THEN <<"-">> ELSE <<>>
        frac == FractionDigits(m % Scale, 5)
    IN  IF m # 0 /\ m < 10 THEN sign \o <<DigitChar(m), "e", "-", "0", "5">>
        ELSE sign \o DigitsOf(m \div Scale) \o <<".">>
             \o (IF frac = <<>> THEN <<"0">> ELSE frac)

\* ', '.join of the texts of a list
RECURSIVE JoinComma(_)
JoinComma(texts) ==
    IF texts = <<>> THEN <<>>
    ELSE IF Len(texts) = 1 THEN texts[1]
    ELSE texts[1] \o <<",", " ">> \o JoinComma(Tail(texts))

\* str(value): of a str its characters; inside a list or a dict a str is quoted.
\* The keys of a dict handed to a converter are single characters.
RECURSIVE Repr(_, _)
Repr(v, quoted) ==
    CASE v.t = "null" -> <<"N", "o", "n", "e">>
      [] v.t = "int" -> ReprInt(v.n)
      [] v.t = "float" -> ReprFloat(v.n)
      [] v.t = "inf" -> <<"i", "n", "f">>
      [] v.t = "nan" -> <<"n", "a", "n">>
      [] v.t = "str" -> IF quoted THEN <<"'">> \o v.s \o <<"'">> ELSE v.s
      [] v.t = "list" ->
            <<"[">> \o JoinComma([i \in 1..Len(v.items) |-> Repr(v.items[i], TRUE)]) \o <<"]">>
      [] v.t = "obj" ->
            LET keys == DOMAIN v.f
                k == CHOOSE x \in keys : TRUE
            IN  IF keys = {} THEN <<"{", "}">>
                ELSE <<"{", "'", k, "'", ":", " ">> \o Repr(v.f[k], TRUE) \o <<"}">>

\* 'not value': None, 0, 0.0, '', [] and {} are falsy
Falsy(v) ==
    \/ v.t = "null"
    \/ v.t \in {"int", "float"} /\ v.n = 0
    \/ v.t = "str" /\ v.s = <<>>
    \/ v.t = "list" /\ v.items = <<>>
    \/ v.t = "obj" /\ DOMAIN v.f = {}

convert_floor_to_int(floor_str) ==
    IF Falsy(floor_str) THEN JNull
    ELSE IF floor_str.t = "int" THEN floor_str
    ELSE FloorOfText(Repr(floor_str, FALSE))

---------------------------------------------------------------------------
(* convert_japanese_era_date (main.py:112-138) *)

EraLetters == {"R", "H", "S"}

HasChar(str, c) == \E i \in 1..Len(str) : str[i] = c

\* main.py:125-130: the first year of the era, R tested before H before S
EraBase(str) ==
    IF HasChar(str, "R") THEN 2018 ELSE IF HasChar(str, "H") THEN 1988 ELSE 1925

\* f"{year}-01-01"
YearFirstDay(year) == DigitsOf(year) \o <<"-", "0", "1", "-", "0", "1">>

\* main.py:119-138 on a non-empty string.  date_str is reassigned at line 120, so
\* the pass-through returns, and the except clause for int('') returns, the
\* upper-cased and stripped text
EraDateOfText(str) ==
    LET s == Strip(Upper(str))
        digits == FilterDigits(s)
    IN  IF \E c \in EraLetters : HasChar(s, c)
        THEN IF digits = <<>> THEN s
             ELSE YearFirstDay(EraBase(s) + DigitsValue(digits))
        ELSE s

convert_japanese_era_date(date_str) ==
    IF Falsy(date_str) \/ date_str.t # "str" THEN date_str
    ELSE JStr(EraDateOfText(date_str.s))

---------------------------------------------------------------------------
(* convert_building_age (main.py:141-162) *)

\* int(x) of the float x = n / Scale
IntOfFloat(n) == TruncDiv(n, Scale)

convert_building_age(age_str) ==
    IF Falsy(age_str) THEN JNull
    ELSE CASE age_str.t = "int" -> age_str
           [] age_str.t = "float" -> JInt(IntOfFloat(age_str.n))
           [] age_str.t = "inf" -> JNull       \* int(inf): OverflowError, caught
           [] age_str.t = "nan" -> JNull       \* int(nan): ValueError, caught
           [] OTHER -> LET x == ParseFloat(Repr(age_str, FALSE))
                       IN  IF x.ok THEN JInt(IntOfFloat(x.val)) ELSE JNull

---------------------------------------------------------------------------
(* Message bodies: the decoded text as a sequence of tokens *)

\* "fudosan" and "bukken" stand for the two domain keywords of main.py:538
Bodies == {<<>>, <<"x">>, <<"fudosan">>, <<"x", "bukken">>}

\* 'kw in body'
Contains(body, kw) == \E i \in 1..Len(body) : body[i] = kw

\* what a body is to the pipeline: empty, holding a domain keyword, or plain text
BodyClass(body) ==
    IF body = <<>> THEN "empty"
    ELSE IF \E i \in 1..Len(body) : body[i] \in {"fudosan", "bukken"} THEN "keyword"
    ELSE "plain"

\* faulty variant: any non-empty body passes the gate
PassesAnyText(body) == body # <<>>

\* main.py:538  the negation of the skip condition
PassesKeywordGate(body) == Contains(body, "fudosan") \/ Contains(body, "bukken")

---------------------------------------------------------------------------
(* decode_email_body (main.py:247-308).  A MIME part is a record: mime is its *)
(* mimeType, data its body data (absent, undecodable, or decoding to a text,  *)
(* which may be the empty one), parts its sub-parts.                          *)
(* A text is a sequence of tokens; in an HTML text the tokens "<p>" and        *)
(* "</p>" are tags.                                                            *)

NoData == [present |-> FALSE]
BadData == [present |-> TRUE, ok |-> FALSE]
Data(text) == [present |-> TRUE, ok |-> TRUE, text |-> text]

Part(mime, data, parts) == [mime |-> mime, data |-> data, parts |-> parts]

NoParts == [plain |-> <<>>, html |-> <<>>]

\* faulty variant: a text that was found is not overwritten by a later leaf
LeafTextKeepsFirst(message, message_parts) ==
    IF message.mime = "text/plain" /\ message.data.present /\ message.data.ok
         /\ message_parts.plain = <<>>
    THEN [message_parts EXCEPT !.plain = message.data.text]
    ELSE IF message.mime = "text/html" /\ message.data.present /\ message.data.ok
              /\ message_parts.html = <<>>
    THEN [message_parts EXCEPT !.html = message.data.text]
    ELSE message_parts

\* main.py:267-281: a leaf with data assigns its decoded text to its entry of
\* message_parts; a decoding error is logged and leaves the entry as it was
LeafText(message, message_parts) ==
    IF message.mime = "text/plain" /\ message.data.present
    THEN IF message.data.ok THEN [message_parts EXCEPT !.plain = message.data.text]
         ELSE message_parts
    ELSE IF message.mime = "text/html" /\ message.data.present
    THEN IF message.data.ok THEN [message_parts EXCEPT !.html = message.data.text]
         ELSE message_parts
    ELSE message_parts

\* main.py:255-286: the walk over the tree, depth first, in the order of the parts
RECURSIVE find_message_parts_text(_, _)
RECURSIVE WalkParts(_, _)
WalkParts(parts, message_parts) ==
    IF parts = <<>> THEN message_parts
    ELSE WalkParts(Tail(parts), find_message_parts_text(Head(parts), message_parts))

find_message_parts_text(message, message_parts) ==
    IF message.mime = "multipart" THEN WalkParts(message.parts, message_parts)
    ELSE WalkParts(message.parts, LeafText(message, message_parts))

\* BeautifulSoup(html).get_text(separator=' ', strip=True): the text between the tags
GetText(html) == SelectSeq(html, LAMBDA tok : tok \notin {"<p>", "</p>"})

decode_email_body(payload) ==
    LET message_parts == find_message_parts_text(payload, NoParts)
    IN  IF message_parts.plain # <<>> THEN message_parts.plain
        ELSE IF message_parts.html # <<>> THEN GetText(message_parts.html)
        ELSE <<>>

---------------------------------------------------------------------------
(* Provider responses *)

UnpricedRecord == JObj([property_name |-> JStr("a"), price |-> JNull])
PricedRecord == JObj([property_name |-> JStr("b"), price |-> JInt(1580)])
ScalarItem == JInt(7)

ResponseRecords == {UnpricedRecord, PricedRecord}

\* the arrays a response can hold: the sequences of records, and two arrays with an
\* element that is no JSON object
ResponseArrays ==
    SeqsUpTo(ResponseRecords, MaxProps) \cup {<<ScalarItem>>, <<PricedRecord, ScalarItem>>}

\* what generate_content gives on one call: it raises, or its text is not JSON,
\* or the text is JSON whose top level is a single object, or a JSON array
Responses ==
    {[kind |-> "transport"], [kind |-> "not_json"],
     [kind |-> "object", value |-> PricedRecord]}
    \cup {[kind |-> "array", items |-> a] : a \in ResponseArrays}

---------------------------------------------------------------------------
(* One call of the undecorated analyze_email_with_gemini (main.py:316-417): *)
(* the value it returns, or the fact that it raises.                        *)

Raised == [raised |-> TRUE]
Returned(v) == [raised |-> FALSE, value |-> v]

\* faulty variant: a parse failure is raised to the retry wrapper instead of returning []
AnalyzeOnceParseRaises(resp) ==
    CASE resp.kind = "transport" -> Raised
      [] resp.kind = "not_json" -> Raised
      [] resp.kind = "object" -> Raised
      [] resp.kind = "array" -> Returned(resp.items)

\* faulty variant: a single object is wrapped into a one-element list
AnalyzeOnceWrapsObject(resp) ==
    CASE resp.kind = "transport" -> Raised
      [] resp.kind = "not_json" -> Returned(<<>>)
      [] resp.kind = "object" -> Returned(<<resp.value>>)
      [] resp.kind = "array" -> Returned(resp.items)

AnalyzeOnce(resp) ==
    CASE resp.kind = "transport" -> Raised              \* generate_content raises
      [] resp.kind = "not_json" -> Returned(<<>>)       \* JSONDecodeError: return []
      [] resp.kind = "object" -> Raised                 \* ValueError: not a list
      [] resp.kind = "array" -> Returned(resp.items)

---------------------------------------------------------------------------
(* filter_valid_properties (main.py:438-452) *)

\* faulty variant: the price is tested for truth, so that a price of 0 is dropped
HasTruthyPrice(item) == DictGet(item.f, "price") \notin {JNull, JInt(0)}

\* property_data.get('price') is not None
HasPrice(item) == DictGet(item.f, "price") # JNull

\* the loop over property_data_list, appending the priced records in order
RECURSIVE FilterLoop(_, _)
FilterLoop(list, valid) ==
    IF list = <<>> THEN valid
    ELSE FilterLoop(Tail(list),
                    IF HasPrice(Head(list)) THEN Append(valid, Head(list)) ELSE valid)

\* .get on an element that is no dict raises AttributeError
FilterRaises(list) == \E i \in 1..Len(list) : list[i].t # "obj"

filter_valid_properties(list) == FilterLoop(list, <<>>)

---------------------------------------------------------------------------
(* prepare_property_data (main.py:419-436) *)

\* faulty variant: the identifier is derived from the message and the position
UuidOfMessage(run, email_id, i) == [t |-> "uuid", run |-> 0, msg |-> email_id, i |-> i]

\* str(uuid.uuid4()): a fresh identifier, named by the call that generated it: the
\* invocation, the message in hand and the position of the record in its list
Uuid(run, email_id, i) == [t |-> "uuid", run |-> run, msg |-> email_id, i |-> i]

\* faulty variant: one identifier is generated per message and shared by its records
PrepareWithSharedId(item, email_id, run, i) ==
    JObj(DictUpdate(item.f, [id |-> Uuid(run, email_id, 1), email_id |-> JStr(email_id)]))

prepare_property_data(item, email_id, run, i) ==
    JObj(DictUpdate(item.f, [id |-> Uuid(run, email_id, i), email_id |-> JStr(email_id)]))

\* main.py:577-583: the loop that assembles every filtered record
PrepareAll(filtered, email_id, run) ==
    [i \in 1..Len(filtered) |-> prepare_property_data(filtered[i], email_id, run, i)]

---------------------------------------------------------------------------
(* save_to_bigquery (main.py:454-498) *)

YenFields == {"road_price", "current_rent_income", "expected_rent_income"}

\* main.py:466-484: the converter of each field that has one
ConvertField(field, value) ==
    CASE field \in YenFields -> convert_to_yen(value)
      [] field = "floor_number" -> convert_floor_to_int(value)
      [] field = "construction_date" -> convert_japanese_era_date(value)
      [] field = "building_age" -> convert_building_age(value)
      [] OTHER -> value

\* the copy of one record with its fields converted (main.py:464-484)
ConvertRecord(item) ==
    JObj([k \in DOMAIN item.f |-> ConvertField(k, item.f[k])])

ConvertAll(list) == [i \in 1..Len(list) |-> ConvertRecord(list[i])]

\* a converter raises: the exception leaves the loop and is caught at main.py:496
ConvertRaises(list) ==
    \E i \in 1..Len(list) : \E k \in DOMAIN list[i].f : ConvertField(k, list[i].f[k]).t = "raise"

\* save_to_bigquery on a list of records, given whether insert_rows_json takes
\* the rows without errors: its answer, and the rows handed to the store
SaveToBigQuery(list, accepted) ==
    IF list = <<>> THEN [saved |-> FALSE, rows |-> <<>>]
    ELSE IF ConvertRaises(list) THEN [saved |-> FALSE, rows |-> <<>>]
    ELSE [saved |-> accepted, rows |-> ConvertAll(list)]

\* main.py:563-594: the rows that reach insert_rows_json for the list the
\* extraction returned; none when the message is skipped or an exception is raised
\* on the way (by the filter, or by a converter inside save_to_bigquery)
HandedToStore(list, email_id, run) ==
    IF list = <<>> THEN <<>>
    ELSE IF FilterRaises(list) THEN <<>>
    ELSE IF filter_valid_properties(list) = <<>> THEN <<>>
    ELSE SaveToBigQuery(PrepareAll(filter_valid_properties(list), email_id, run), TRUE).rows

---------------------------------------------------------------------------
(* The handler and the per-message pipeline *)

NoResponse == [kind |-> "none"]

\* the locals of process_property_email for the message in hand.  kinds and response
\* record what the provider answered on each attempt and on the last one, rejected
\* that the store refused the batch.  The body is kept for a message that stops at
\* the body checks; past the keyword gate it is only copied into the provenance
\* columns, of which the model keeps email_id, and body_class remembers what it was
NoCur == [fetched |-> FALSE, body |-> <<>>, body_class |-> "none",
          attempt |-> 0, kinds |-> <<>>, response |-> NoResponse, returned |-> FALSE,
          property_data_list |-> <<>>, processed_properties |-> <<>>,
          inserts |-> 0, rejected |-> FALSE, acks |-> 0, outcome |-> "none"]

\* what the driver's log keeps of a message once process_property_email has returned
NoLog == [outcome |-> "none", rejected |-> FALSE, acks |-> 0]

NoResult == [status |-> "none"]

IdleInv == [pc |-> "idle", run |-> 0, listed |-> FALSE, messages |-> <<>>, index |-> 0,
            processed_emails |-> <<>>, processed_count |-> 0,
            log |-> [m \in MsgIds |-> NoLog], cur |-> NoCur, result |-> NoResult]

\* the permutations of a set of message ids, as sequences
Orders(S) == {q \in [1..Cardinality(S) -> S] : \A i, j \in 1..Cardinality(S) : q[i] = q[j] => i = j}

Msg(s) == inv[s].messages[inv[s].index]

\* process_property_emails (main.py:661-676): the response of a run that got through
SuccessResult(emails, processed_count) ==
    IF emails = <<>>
    THEN [status |-> "success", code |-> 200, processed_emails |-> 0, total_emails |-> 0]
    ELSE [status |-> "success", code |-> 200, processed_emails |-> processed_count,
          total_emails |-> Len(emails)]

\* faulty variant: a setup failure is reported as a run that found nothing
ErrorResultAsSuccess ==
    [status |-> "success", code |-> 200, processed_emails |-> 0, total_emails |-> 0]

\* main.py:678-686
ErrorResult == [status |-> "error", code |-> 500, processed_emails |-> 0, total_emails |-> 0]

\* faulty variant: mark_as_read is called on every path, the failed ones included
OutcomeThenAck(s, cur, outcome) ==
    [inv[s] EXCEPT !.pc = "ack", !.cur = [cur EXCEPT !.outcome = outcome]]

\* process_property_email returns (None or email_info): the message reached its outcome
Outcome(s, cur, outcome) ==
    [inv[s] EXCEPT !.pc = "next", !.cur = [cur EXCEPT !.outcome = outcome]]

\* a skip path: mark_as_read is called next, then None is returned
ToAck(s, cur, outcome) ==
    [inv[s] EXCEPT !.pc = "ack", !.cur = [cur EXCEPT !.outcome = outcome]]

\* main.py:651-656: the handler starts; setup_services succeeds or raises
StartRun(s) ==
    /\ inv[s].pc \in {"idle", "done"}
    /\ \A t \in Slots \ {s} : inv[t].pc \in {"idle", "done"}
    /\ runs < MaxRuns
    /\ runs' = runs + 1
    /\ \E ok \in BOOLEAN :
         inv' = [inv EXCEPT ![s] =
                   IF ok THEN [IdleInv EXCEPT !.pc = "list", !.run = runs + 1]
                   ELSE [IdleInv EXCEPT !.pc = "done", !.run = runs + 1, !.result = ErrorResult]]
    /\ UNCHANGED <<unread, store, unit>>

\* faulty variant: the query lacks is:unread and matches every labelled message
AllLabelled == MsgIds

\* main.py:620  q='is:unread label:...': the messages the listing query matches
UnreadLabelled == unread

\* main.py:616-629: the listing call
ListMessages(s) ==
    /\ inv[s].pc = "list"
    /\ \/ \* the call raises (main.py:646-648): [], 0 is returned
          /\ inv' = [inv EXCEPT ![s].pc = "done", ![s].result = SuccessResult(<<>>, 0)]
       \/ \* no message matches (main.py:624-626): [], 0 is returned
          /\ UnreadLabelled = {}
          /\ inv' = [inv EXCEPT ![s].pc = "done", ![s].listed = TRUE,
                                 ![s].result = SuccessResult(<<>>, 0)]
       \/ /\ UnreadLabelled # {}
          /\ \E q \in Orders(UnreadLabelled) :
               inv' = [inv EXCEPT ![s].pc = "fetch", ![s].listed = TRUE,
                                      ![s].messages = q, ![s].index = 1]
    /\ UNCHANGED <<unread, store, runs, unit>>

\* main.py:516-550: fetch, decode, the empty-body check and the keyword gate
FetchMessage(s) ==
    /\ inv[s].pc = "fetch"
    /\ \/ \* messages().get raises: caught at main.py:603
          inv' = [inv EXCEPT ![s] = Outcome(s, NoCur, "Failed")]
       \/ \E body \in Bodies :
            LET seen == [NoCur EXCEPT !.fetched = TRUE, !.body_class = BodyClass(body)]
                cur == [seen EXCEPT !.body = body]
            IN  inv' = [inv EXCEPT ![s] =
                          IF body = <<>> THEN ToAck(s, cur, "Skipped")
                          ELSE IF ~PassesKeywordGate(body) THEN ToAck(s, cur, "Skipped")
                          ELSE [inv[s] EXCEPT !.pc = "extract", !.cur = seen]]
    /\ UNCHANGED <<unread, store, runs, unit>>

\* main.py:563-588: what follows a returned extraction, up to the insert
AfterExtraction(s, cur, list) ==
    LET c == [cur EXCEPT !.returned = TRUE, !.property_data_list = list]
        filtered == filter_valid_properties(list)
        processed == PrepareAll(filtered, Msg(s), inv[s].run)
    IN  IF list = <<>> THEN ToAck(s, c, "Skipped")
        ELSE IF FilterRaises(list) THEN Outcome(s, c, "Failed")
        ELSE IF filtered = <<>> THEN ToAck(s, c, "Skipped")
        ELSE [inv[s] EXCEPT !.pc = "insert",
                            !.cur = [c EXCEPT !.processed_properties = processed]]

\* main.py:310-316 and 561: one attempt of the retried extraction call
Extract(s) ==
    /\ inv[s].pc = "extract"
    /\ \E resp \in Responses :
         LET r == AnalyzeOnce(resp)
             cur == [inv[s].cur EXCEPT !.attempt = @ + 1, !.kinds = Append(@, resp.kind),
                                      !.response = resp]
         IN  inv' = [inv EXCEPT ![s] =
                       IF r.raised
                       THEN IF cur.attempt >= StopAfterAttempt
                            THEN Outcome(s, cur, "Failed")
                            ELSE [inv[s] EXCEPT !.cur = cur]
                       ELSE AfterExtraction(s, cur, r.value)]
    /\ UNCHANGED <<unread, store, runs, unit>>

\* faulty variant: the answer of save_to_bigquery is ignored
AfterSaveIgnored(s, cur, saved) == ToAck(s, cur, "Persisted")

\* main.py:592-597: what process_property_email does with save_to_bigquery's answer
AfterSave(s, cur, saved) ==
    IF saved THEN ToAck(s, cur, "Persisted") ELSE Outcome(s, cur, "Failed")

\* main.py:590-594 with save_to_bigquery (main.py:454-498)
Insert(s) ==
    /\ inv[s].pc = "insert"
    /\ LET cur == [inv[s].cur EXCEPT !.inserts = @ + 1]
           rows == ConvertAll(cur.processed_properties)
       IN  \/ \* insert_rows_json returns row errors, or raises: False is returned
              /\ store' = store
              /\ inv' = [inv EXCEPT ![s] = AfterSave(s, [cur EXCEPT !.rejected = TRUE], FALSE)]
           \/ \* no rows to save (main.py:457-459): False is returned
              /\ cur.processed_properties = <<>>
              /\ store' = store
              /\ inv' = [inv EXCEPT ![s] = AfterSave(s, cur, FALSE)]
           \/ \* the store takes the batch: True is returned
              /\ SaveToBigQuery(cur.processed_properties, TRUE).saved
              /\ store' = store \cup {rows}
              /\ inv' = [inv EXCEPT ![s] = AfterSave(s, cur, TRUE)]
    /\ UNCHANGED <<unread, runs, unit>>

\* faulty variant: a failed mark_as_read turns the message into a failed one
AckFailureFails(s) ==
    /\ inv[s].pc = "ack"
    /\ \E ok \in BOOLEAN :
         /\ unread' = IF ok THEN unread \ {Msg(s)} ELSE unread
         /\ inv' = [inv EXCEPT ![s].pc = "next", ![s].cur.acks = @ + 1,
                                ![s].cur.outcome = IF ok THEN @ ELSE "Failed"]
    /\ UNCHANGED <<store, runs, unit>>

\* mark_as_read (main.py:500-512) and the return that follows it
Ack(s) ==
    /\ inv[s].pc = "ack"
    /\ \E ok \in BOOLEAN : unread' = IF ok THEN unread \ {Msg(s)} ELSE unread
    /\ inv' = [inv EXCEPT ![s].pc = "next", ![s].cur.acks = @ + 1]
    /\ UNCHANGED <<store, runs, unit>>

\* faulty variant: the failure of a message ends the loop over the listing
NextMessageStopsOnFailure(s) ==
    /\ inv[s].pc = "next"
    /\ LET persisted == inv[s].cur.outcome = "Persisted"
           emails == IF persisted THEN Append(inv[s].processed_emails, Msg(s))
                     ELSE inv[s].processed_emails
           count == IF persisted THEN inv[s].processed_count + 1 ELSE inv[s].processed_count
           last == inv[s].index = Len(inv[s].messages) \/ inv[s].cur.outcome = "Failed"
       IN  inv' = [inv EXCEPT ![s] =
                     [inv[s] EXCEPT !.processed_emails = emails,
                                    !.processed_count = count,
                                    !.log[Msg(s)] = [outcome |-> inv[s].cur.outcome,
                                                     rejected |-> inv[s].cur.rejected,
                                                     acks |-> inv[s].cur.acks],
                                    !.cur = NoCur,
                                    !.index = @ + 1,
                                    !.pc = IF last THEN "done" ELSE "fetch",
                                    !.result = IF last THEN SuccessResult(emails, count) ELSE @]]
    /\ UNCHANGED <<unread, store, runs, unit>>

\* main.py:635-644 and 659-676: the driver takes the result of one message and
\* goes on to the next one, or returns the run's result
NextMessage(s) ==
    /\ inv[s].pc = "next"
    /\ LET persisted == inv[s].cur.outcome = "Persisted"
           emails == IF persisted THEN Append(inv[s].processed_emails, Msg(s))
                     ELSE inv[s].processed_emails
           count == IF persisted THEN inv[s].processed_count + 1 ELSE inv[s].processed_count
           last == inv[s].index = Len(inv[s].messages)
       IN  inv' = [inv EXCEPT ![s] =
                     [inv[s] EXCEPT !.processed_emails = emails,
                                    !.processed_count = count,
                                    !.log[Msg(s)] = [outcome |-> inv[s].cur.outcome,
                                                     rejected |-> inv[s].cur.rejected,
                                                     acks |-> inv[s].cur.acks],
                                    !.cur = NoCur,
                                    !.index = @ + 1,
                                    !.pc = IF last THEN "done" ELSE "fetch",
                                    !.result = IF last THEN SuccessResult(emails, count) ELSE @]]
    /\ UNCHANGED <<unread, store, runs, unit>>

---------------------------------------------------------------------------
(* The pure functions, each applied to an input drawn from a bounded set *)

NoUnit == [f |-> "none"]

PipelineIdle ==
    /\ unread = MsgIds
    /\ store = {}
    /\ runs = 0
    /\ inv = [s \in Slots |-> IdleInv]

UnitInit(f, inputs) ==
    /\ PipelineIdle
    /\ unit \in {[f |-> f, phase |-> 0, in |-> x, out |-> JNull, again |-> JNull] : x \in inputs}

\* the records handed to the validity filter: price absent, null, zero, positive
FilterRecords ==
    {JObj([property_name |-> JStr("a")]),
     JObj([property_name |-> JStr("b"), price |-> JNull]),
     JObj([price |-> JInt(0)]),
     JObj([property_name |-> JStr("d"), price |-> JInt(1580)])}

FilterInputs == SeqsUpTo(FilterRecords, MaxLen)

InitFilter == UnitInit("filter", FilterInputs)

FilterOnce ==
    /\ unit.f = "filter" /\ unit.phase = 0
    /\ unit' = [unit EXCEPT !.phase = 1, !.out = filter_valid_properties(unit.in)]
    /\ UNCHANGED <<unread, store, runs, inv>>

FilterAgain ==
    /\ unit.f = "filter" /\ unit.phase = 1
    /\ unit' = [unit EXCEPT !.phase = 2, !.again = filter_valid_properties(unit.out)]
    /\ UNCHANGED <<unread, store, runs, inv>>

NextFilter == FilterOnce \/ FilterAgain

SpecFilter == InitFilter /\ [][NextFilter]_vars

\* the characters of the strings handed to convert_to_yen
YenChars == {"1", "5", ".", ",", " ", "-", "a"}

YenInputs ==
    {JNull} \cup {JInt(n) : n \in -2..2} \cup {JFloat(n) : n \in -MaxNum..MaxNum}
    \cup {JStr(str) : str \in SeqsUpTo(YenChars, MaxStrLen)}

InitYen == UnitInit("yen", YenInputs)

ApplyYen ==
    /\ unit.f = "yen" /\ unit.phase = 0
    /\ unit' = [unit EXCEPT !.phase = 1, !.out = convert_to_yen(unit.in)]
    /\ UNCHANGED <<unread, store, runs, inv>>

NextYen == ApplyYen

SpecYen == InitYen /\ [][NextYen]_vars

\* values that are no string: null, numbers (0, negative, fractional, below
\* 0.0001, infinite, NaN), arrays and objects
OtherValues ==
    {JNull, JInf, JNaN}
    \cup {JInt(n) : n \in -2..2}
    \cup {JFloat(n) : n \in {-390000, -150000, 0, 5, 10, 50000, 200000, 390000}}
    \cup {JList(<<>>), JList(<<JInt(1), JInt(2)>>), JList(<<JStr(<<"B", "1">>)>>),
          JObj(<<>>), JObj([a |-> JInt(1)])}

\* the characters of the strings handed to convert_floor_to_int
FloorChars == {"0", "2", "B", "b", "F", "chi", "ka", "kai", "-", " "}

FloorInputs == OtherValues \cup {JStr(str) : str \in SeqsUpTo(FloorChars, MaxFloorLen)}

InitFloor == UnitInit("floor", FloorInputs)

ApplyFloor ==
    /\ unit.f = "floor" /\ unit.phase = 0
    /\ unit' = [unit EXCEPT !.phase = 1, !.out = convert_floor_to_int(unit.in)]
    /\ UNCHANGED <<unread, store, runs, inv>>

NextFloor == ApplyFloor

SpecFloor == InitFloor /\ [][NextFloor]_vars

\* the characters of the strings handed to convert_japanese_era_date
DateChars == {"R", "H", "S", "s", "t", "-", " ", "1", "5"}

DateInputs == OtherValues \cup {JStr(str) : str \in SeqsUpTo(DateChars, MaxDateLen)}

InitDate == UnitInit("date", DateInputs)

ApplyDate ==
    /\ unit.f = "date" /\ unit.phase = 0
    /\ unit' = [unit EXCEPT !.phase = 1, !.out = convert_japanese_era_date(unit.in)]
    /\ UNCHANGED <<unread, store, runs, inv>>

NextDate == ApplyDate

SpecDate == InitDate /\ [][NextDate]_vars

\* the leaves of the MIME trees handed to decode_email_body
MimeLeaves ==
    {Part("text/plain", d, <<>>) :
        d \in {NoData, BadData, Data(<<>>), Data(<<"p1">>), Data(<<"p2">>)}}
    \cup {Part("text/html", d, <<>>) : d \in {BadData, Data(<<"<p>", "h1", "</p>">>)}}
    \cup {Part("application/pdf", Data(<<"x">>), <<>>)}

MimeNested == {Part("multipart", NoData, ps) : ps \in SeqsUpTo(MimeLeaves, MaxNested)}

MimeTrees ==
    MimeLeaves
    \cup {Part("multipart", NoData, ps) : ps \in SeqsUpTo(MimeLeaves \cup MimeNested, MaxParts)}

InitDecode ==
    /\ PipelineIdle
    /\ unit \in {[f |-> "decode", phase |-> 0, in |-> x, out |-> <<>>] : x \in MimeTrees}

ApplyDecode ==
    /\ unit.f = "decode" /\ unit.phase = 0
    /\ unit' = [unit EXCEPT !.phase = 1, !.out = decode_email_body(unit.in)]
    /\ UNCHANGED <<unread, store, runs, inv>>

NextDecode == ApplyDecode

SpecDecode == InitDecode /\ [][NextDecode]_vars

\* save_to_bigquery on one record that carries one converted field
ConvertedFields ==
    {"road_price", "current_rent_income", "floor_number", "construction_date", "building_age"}

NormalizeChars == {"3", "9", ".", "-", "R", "B", "a", " "}

NormalizeValues == OtherValues \cup {JStr(str) : str \in SeqsUpTo(NormalizeChars, MaxStrLen)}

InitNormalize ==
    /\ PipelineIdle
    /\ unit \in {[f |-> "normalize", phase |-> 0, field |-> k, in |-> x,
                   accepted |-> FALSE, out |-> SaveToBigQuery(<<>>, FALSE)] :
                     k \in ConvertedFields, x \in NormalizeValues}

ApplyNormalize ==
    /\ unit.f = "normalize" /\ unit.phase = 0
    /\ \E accepted \in BOOLEAN :
         unit' = [unit EXCEPT !.phase = 1, !.accepted = accepted,
                              !.out = SaveToBigQuery(<<JObj(unit.field :> unit.in)>>, accepted)]
    /\ UNCHANGED <<unread, store, runs, inv>>

NextNormalize == ApplyNormalize

SpecNormalize == InitNormalize /\ [][NextNormalize]_vars

\* the stages between the extraction and the store, on one extraction result:
\* records with a price (null, 0, a number) and a converted field, records without
\* one, a record with every converted field, and an element that is no object
OrderPrices == {JNull, JInt(0), JInt(1580)}

OrderRoadPrices == {JInt(3), JInf, JStr(<<"3">>), JStr(<<"a">>)}

FullRecord ==
    JObj([price |-> JInt(1580), road_price |-> JStr(<<"3", ".", "9">>),
          floor_number |-> JStr(<<"B", "2">>), construction_date |-> JStr(<<"R", "3">>),
          building_age |-> JFloat(390000)])

OrderItems ==
    {JObj([price |-> p, road_price |-> r]) : p \in OrderPrices, r \in OrderRoadPrices}
    \cup {UnpricedRecord, PricedRecord, FullRecord, ScalarItem}

OrderInputs == SeqsUpTo(OrderItems, MaxProps)

InitOrder ==
    /\ PipelineIdle
    /\ unit \in {[f |-> "order", phase |-> 0, in |-> list, out |-> <<>>] : list \in OrderInputs}

ApplyOrder ==
    /\ unit.f = "order" /\ unit.phase = 0
    /\ unit' = [unit EXCEPT !.phase = 1, !.out = HandedToStore(unit.in, "m1", 1)]
    /\ UNCHANGED <<unread, store, runs, inv>>

NextOrder == ApplyOrder

SpecOrder == InitOrder /\ [][NextOrder]_vars

---------------------------------------------------------------------------
(* The pipeline: its initial state and its steps *)

Init ==
    /\ PipelineIdle
    /\ unit = NoUnit

Next ==
    \E s \in Slots :
        \/ StartRun(s)
        \/ ListMessages(s)
        \/ FetchMessage(s)
        \/ Extract(s)
        \/ Insert(s)
        \/ Ack(s)
        \/ NextMessage(s)

Spec == Init /\ [][Next]_vars

\* a step of an invocation that is under way.  The handler runs its calls one
\* after the other on one thread (main.py:650-686), and each call returns or
\* raises, so an invocation that can take a step takes it
Step(s) ==
    \/ ListMessages(s)
    \/ FetchMessage(s)
    \/ Extract(s)
    \/ Insert(s)
    \/ Ack(s)
    \/ NextMessage(s)

\* the pipeline with that progress assumed; the arrival of a request (StartRun)
\* is left to the environment
SpecLive == Init /\ [][Next]_vars /\ \A s \in Slots : WF_vars(Step(s))

---------------------------------------------------------------------------
(* Two invocations of the handler that overlap.  Nothing in main.py keeps a   *)
(* second HTTP request from running process_property_emails while a first one  *)
(* is under way: each has its own locals and they share the mailbox and the    *)
(* store.                                                                      *)

Invocations == {1, 2}

InitOverlap ==
    /\ unread = {"m1"}
    /\ store = {}
    /\ runs = 0
    /\ inv = [s \in Invocations |-> IdleInv]
    /\ unit = NoUnit

\* main.py:651-656: an invocation starts, whatever the other one is doing
StartOverlap(s) ==
    /\ inv[s].pc = "idle"
    /\ runs' = runs + 1
    /\ \E ok \in BOOLEAN :
         inv' = [inv EXCEPT ![s] =
                   IF ok THEN [IdleInv EXCEPT !.pc = "list", !.run = runs + 1]
                   ELSE [IdleInv EXCEPT !.pc = "done", !.run = runs + 1, !.result = ErrorResult]]
    /\ UNCHANGED <<unread, store, unit>>

NextOverlap ==
    \E s \in Invocations :
        \/ StartOverlap(s)
        \/ ListMessages(s)
        \/ FetchMessage(s)
        \/ Extract(s)
        \/ Insert(s)
        \/ Ack(s)
        \/ NextMessage(s)

SpecOverlap == InitOverlap /\ [][NextOverlap]_vars

---------------------------------------------------------------------------
(* Properties *)

Cur(s) == inv[s].cur

\* the kind of the provider's answer on the last attempt made
LastKind(s) == Cur(s).kinds[Len(Cur(s).kinds)]

\* the retried extraction call is over: it returned, or raised for the last time
Ended(s) == inv[s].pc \in {"insert", "ack", "next"} /\ Cur(s).attempt > 0

Range(q) == {q[i] : i \in 1..Len(q)}

\* the batches of the store that hold a row of message m
BatchesFor(m) == {b \in store : \E i \in 1..Len(b) : b[i].f.email_id = JStr(m)}

\* the batches of the store that hold a row whose id invocation number r generated
BatchesOfRun(r) == {b \in store : \E i \in 1..Len(b) : b[i].f.id.run = r}

Persisted(s) == {m \in MsgIds : inv[s].log[m].outcome = "Persisted"}

IsPricedRecord(x) == x.t = "obj" /\ "price" \in DOMAIN x.f /\ x.f["price"] # JNull

PricedOf(list) == SelectSeq(list, IsPricedRecord)

AllRecords(list) == \A i \in 1..Len(list) : list[i].t = "obj"

\* a row without the columns the assembly adds
WithoutProvenance(row) == JObj([k \in DOMAIN row.f \ {"id", "email_id"} |-> row.f[k]])

(* C1: a message whose batch insert is refused (row errors, or an exception) ends *)
(* the run Failed: no ack is issued for it in that run, it stays unread, and it   *)
(* is not among the messages counted in processed_emails.                         *)
C1_RejectedInsertFails ==
    \A s \in Slots :
        /\ (inv[s].pc = "next" /\ Cur(s).rejected) =>
              /\ Cur(s).outcome = "Failed"
              /\ Cur(s).acks = 0
              /\ Msg(s) \in unread
        /\ \A m \in MsgIds :
              inv[s].log[m].rejected =>
                 /\ inv[s].log[m].outcome = "Failed"
                 /\ inv[s].log[m].acks = 0
                 /\ m \in unread
                 /\ m \notin Range(inv[s].processed_emails)
        /\ inv[s].processed_count = Len(inv[s].processed_emails)
        /\ Range(inv[s].processed_emails) = Persisted(s)
        /\ (inv[s].pc = "done" /\ inv[s].listed) =>
              inv[s].result.processed_emails = Cardinality(Persisted(s))

C1_Witness ==
    \E s \in Slots :
        /\ inv[s].pc = "done"
        /\ inv[s].result.processed_emails = 1
        /\ \E m \in MsgIds : inv[s].log[m].rejected

(* C2, as claimed: over all runs the rows of one source message are written by *)
(* at most one successful insert.                                              *)
C2_NeverDuplicated == \A m \in MsgIds : Cardinality(BatchesFor(m)) <= 1

(* C2, amended: in non-overlapping runs the rows of one source message are      *)
(* written by at most one successful insert per run, and by no insert once an   *)
(* ack of the message has taken effect (the message is no longer unread).       *)
C2_OncePerRunAndNeverAfterAck ==
    /\ [](\A m \in MsgIds : \A r \in 1..runs :
             Cardinality(BatchesFor(m) \cap BatchesOfRun(r)) <= 1)
    /\ [][\A m \in MsgIds : m \notin unread => BatchesFor(m)' = BatchesFor(m)]_vars

C2_Witness ==
    \E s \in Slots : \E m \in MsgIds :
        /\ runs >= 2
        /\ inv[s].pc = "done" /\ inv[s].listed
        /\ m \notin unread
        /\ BatchesFor(m) # {}
        /\ BatchesFor(m) \subseteq BatchesOfRun(1)

(* C3, as claimed: a response that fails to parse is a failed attempt, retried  *)
(* up to 3 attempts; when the extraction ends on a parse failure the error was  *)
(* raised, the message is Failed and not acked, and no empty result was made of *)
(* it.                                                                          *)
C3_ParseFailureRetried ==
    \A s \in Slots :
        (Ended(s) /\ LastKind(s) = "not_json") =>
            /\ Cur(s).attempt = StopAfterAttempt
            /\ ~Cur(s).returned
            /\ Cur(s).outcome = "Failed"
            /\ Cur(s).acks = 0

(* C3, amended: a response that fails to parse is not retried: the call returns *)
(* an empty result at once, no further provider call is made for the message,   *)
(* nothing is inserted, the message is Skipped and an ack is issued for it.     *)
C3_ParseFailureSkips ==
    \A s \in Slots :
        /\ \A i \in 1..(Len(Cur(s).kinds) - 1) : Cur(s).kinds[i] # "not_json"
        /\ (Cur(s).attempt > 0 /\ LastKind(s) = "not_json") =>
              /\ inv[s].pc \in {"ack", "next"}
              /\ Cur(s).returned
              /\ Cur(s).property_data_list = <<>>
              /\ Cur(s).outcome = "Skipped"
              /\ Cur(s).inserts = 0
              /\ Cur(s).acks = IF inv[s].pc = "next" THEN 1 ELSE 0

C3_Witness ==
    \E s \in Slots :
        /\ inv[s].pc = "next"
        /\ Cur(s).kinds = <<"transport", "not_json">>
        /\ Cur(s).acks = 1
        /\ Msg(s) \notin unread

\* the rows in hand are the priced records of the last response, in order, each
\* with the columns of the assembly added
RowsOfLastResponse(s) ==
    LET want == PricedOf(Cur(s).response.items)
        rows == Cur(s).processed_properties
    IN  /\ Len(rows) = Len(want)
        /\ \A i \in 1..Len(rows) : WithoutProvenance(rows[i]) = want[i]

\* failures of kinds F on attempts 1 and 2 and an array on attempt 3: the pipeline
\* goes on with the records of attempt 3 and acks once they are persisted
ThirdAttemptUsed(s, F) ==
    (/\ Ended(s)
     /\ Len(Cur(s).kinds) = 3
     /\ Cur(s).kinds[1] \in F /\ Cur(s).kinds[2] \in F /\ Cur(s).kinds[3] = "array") =>
        /\ Cur(s).attempt = 3
        /\ Cur(s).returned
        /\ Cur(s).property_data_list = Cur(s).response.items
        /\ (inv[s].pc = "insert" \/ Cur(s).outcome = "Persisted") => RowsOfLastResponse(s)
        /\ Cur(s).outcome = "Persisted" =>
              /\ ConvertAll(Cur(s).processed_properties) \in store
              /\ Cur(s).acks = IF inv[s].pc = "next" THEN 1 ELSE 0
        /\ Cur(s).acks > 0 => Cur(s).outcome \in {"Persisted", "Skipped"}

\* an extraction that met only failures of kinds F ends after the third attempt
FailuresRetried(s, F) ==
    (Ended(s) /\ \A i \in 1..Len(Cur(s).kinds) : Cur(s).kinds[i] \in F) =>
        /\ Len(Cur(s).kinds) = 3
        /\ Cur(s).outcome = "Failed"

(* C4, as claimed: whatever the kind of the failures (parse failure, contract   *)
(* violation, transport failure), failures on attempts 1 and 2 lead to attempt  *)
(* 3, whose records the pipeline then uses; at most 3 provider calls are made   *)
(* and the message is acked after its records are persisted.                    *)
C4_RetryAnyFailure ==
    \A s \in Slots :
        /\ Len(Cur(s).kinds) <= 3
        /\ FailuresRetried(s, {"transport", "object", "not_json"})
        /\ ThirdAttemptUsed(s, {"transport", "object", "not_json"})

(* C4, amended: for contract violations and transport failures (a parse failure *)
(* ends the extraction at once with an empty result): failures on attempts 1    *)
(* and 2 lead to attempt 3, whose records the pipeline then uses; at most 3     *)
(* provider calls are made, and the ack is issued once the records are          *)
(* persisted.                                                                   *)
C4_RetryRaisedFailure ==
    \A s \in Slots :
        /\ Len(Cur(s).kinds) <= 3
        /\ Cur(s).attempt = Len(Cur(s).kinds)
        /\ FailuresRetried(s, {"transport", "object"})
        /\ ThirdAttemptUsed(s, {"transport", "object"})

C4_Witness ==
    \E s \in Slots :
        /\ inv[s].pc = "next"
        /\ Cur(s).kinds = <<"transport", "object", "array">>
        /\ Cur(s).outcome = "Persisted"
        /\ Len(Cur(s).processed_properties) = 2
        /\ Cur(s).acks = 1

(* C5: the extraction only ever returns a sequence. A response that is a single *)
(* JSON object is never returned nor wrapped: the attempt fails and is retried, *)
(* and after the third such attempt the message is Failed, with no insert and   *)
(* no ack, and stays unread.                                                    *)
C5_SingleObjectRejected ==
    \A s \in Slots :
        /\ Cur(s).returned =>
              /\ Cur(s).response.kind \in {"array", "not_json"}
              /\ Cur(s).response.kind = "array" =>
                    Cur(s).property_data_list = Cur(s).response.items
              /\ Cur(s).response.kind = "not_json" => Cur(s).property_data_list = <<>>
        /\ (Cur(s).attempt > 0 /\ LastKind(s) = "object") =>
              /\ ~Cur(s).returned
              /\ \/ inv[s].pc = "extract" /\ Cur(s).attempt < StopAfterAttempt
                 \/ /\ inv[s].pc = "next"
                    /\ Cur(s).attempt = StopAfterAttempt
                    /\ Cur(s).outcome = "Failed"
                    /\ Cur(s).inserts = 0
                    /\ Cur(s).acks = 0
                    /\ Msg(s) \in unread

C5_Witness ==
    \E s \in Slots :
        /\ inv[s].pc = "next"
        /\ Cur(s).kinds = <<"object", "object", "object">>
        /\ Cur(s).outcome = "Failed"

\* the message in hand is Skipped: nothing was inserted for it, and the ack is
\* issued (it is the step in hand, or it has been made)
SkippedAndAcked(s) ==
    /\ inv[s].pc \in {"ack", "next"}
    /\ Cur(s).outcome = "Skipped"
    /\ Cur(s).inserts = 0
    /\ BatchesFor(Msg(s)) \cap BatchesOfRun(inv[s].run) = {}
    /\ Cur(s).acks = IF inv[s].pc = "next" THEN 1 ELSE 0

(* C6: a message with an empty body, a body with neither domain keyword, an     *)
(* empty extraction result, or records none of which has a price, is Skipped:   *)
(* no insert is made for it, an ack is issued for it, and in the first two      *)
(* cases the provider is never called.                                          *)
C6_SkippedIsAckedNotInserted ==
    \A s \in Slots :
        /\ (Cur(s).fetched /\ Cur(s).body_class \in {"empty", "plain"}) =>
              /\ SkippedAndAcked(s)
              /\ Cur(s).attempt = 0
              /\ Cur(s).kinds = <<>>
        /\ (/\ Cur(s).returned
            /\ AllRecords(Cur(s).property_data_list)
            /\ PricedOf(Cur(s).property_data_list) = <<>>) => SkippedAndAcked(s)

C6_Witness ==
    \E s \in Slots :
        /\ inv[s].pc = "next"
        /\ Cur(s).body_class = "plain"
        /\ Cur(s).outcome = "Skipped"
        /\ Cur(s).acks = 1
        /\ Msg(s) \notin unread
        /\ store = {}

(* C7: when the extraction returns n records that all have a price and the     *)
(* insert succeeds, one batch of exactly n rows is handed to the store, every   *)
(* row carries the message's id as email_id, and the ids of the rows are        *)
(* pairwise distinct.                                                           *)
C7_OneBatchOfDistinctRows ==
    \A s \in Slots :
        LET list == Cur(s).property_data_list
            rows == ConvertAll(Cur(s).processed_properties)
        IN  (/\ Cur(s).returned
             /\ list # <<>>
             /\ \A i \in 1..Len(list) : IsPricedRecord(list[i])) =>
               /\ inv[s].pc \in {"insert", "ack", "next"}
               /\ Len(rows) = Len(list)
               /\ \A i \in 1..Len(rows) : rows[i].f.email_id = JStr(Msg(s))
               /\ \A i, j \in 1..Len(rows) : rows[i].f.id = rows[j].f.id => i = j
               /\ Cur(s).outcome = "Persisted" =>
                     /\ Cur(s).inserts = 1
                     /\ rows \in store
                     /\ BatchesFor(Msg(s)) \cap BatchesOfRun(inv[s].run) = {rows}

C7_Witness ==
    \E s \in Slots :
        /\ inv[s].pc = "next"
        /\ Cur(s).outcome = "Persisted"
        /\ Len(Cur(s).property_data_list) = 2
        /\ Len(Cur(s).processed_properties) = 2
        /\ ConvertAll(Cur(s).processed_properties) \in store

(* C8: the result of a run reports as processed_emails the number of messages   *)
(* persisted and as total_emails the number of candidate messages the listing   *)
(* returned, the skipped and the failed ones included.                          *)
C8_ResultCountsListing ==
    \A s \in Slots :
        (inv[s].pc = "done" /\ inv[s].listed) =>
            /\ inv[s].result.status = "success"
            /\ inv[s].result.processed_emails = Cardinality(Persisted(s))
            /\ inv[s].result.total_emails = Len(inv[s].messages)

(* C9: the validity filter keeps exactly the records whose price is not null:   *)
(* its output is the subsequence of those records in their original order, none *)
(* of them is dropped, and filtering the output again changes nothing.          *)
C9_FilterKeepsPriced ==
    unit.f = "filter" =>
        /\ unit.phase >= 1 =>
              /\ unit.out = SelectSeq(unit.in, IsPricedRecord)
              /\ \A x \in Range(unit.in) :
                    IsPricedRecord(x) =>
                       Cardinality({i \in 1..Len(unit.out) : unit.out[i] = x})
                          = Cardinality({i \in 1..Len(unit.in) : unit.in[i] = x})
              /\ \A x \in Range(unit.out) : IsPricedRecord(x)
        /\ unit.phase = 2 => unit.again = unit.out

C9_Witness ==
    /\ unit.f = "filter"
    /\ unit.phase = 2
    /\ Len(unit.in) = 3
    /\ Len(unit.out) = 2
    /\ unit.out[1].f["price"] = JInt(0)
    /\ unit.out[2].f["price"] = JInt(1580)
    /\ unit.again = unit.out

\* k is an integer nearest to n / 10
NearestTenth(k, n) == 2 * (IF 10 * k >= n THEN 10 * k - n ELSE n - 10 * k) <= 10

(* C10: for a numeric or numeric-string value v the man-yen to yen conversion   *)
(* returns round(numeric(v) * 10000), rounding to the nearest integer; null or  *)
(* a blank string gives 0, and a string that is no number gives null.           *)
C10_YenRoundsToNearest ==
    (unit.f = "yen" /\ unit.phase = 1) =>
        LET v == unit.in IN
        CASE v.t = "null" -> unit.out = JInt(0)
          [] v.t = "int" -> unit.out = JInt(v.n * 10000)
          [] v.t = "float" -> unit.out.t = "int" /\ NearestTenth(unit.out.n, v.n)
          [] v.t = "str" ->
                IF Strip(v.s) = <<>> THEN unit.out = JInt(0)
                ELSE IF ParseFloat(RemoveCommas(v.s)).ok
                     THEN /\ unit.out.t = "int"
                          /\ NearestTenth(unit.out.n, ParseFloat(RemoveCommas(v.s)).val)
                     ELSE unit.out = JNull

\* str ends with the character c, and what precedes c is a string of digits
DigitsThen(str, c) ==
    Len(str) >= 2 /\ str[Len(str)] = c /\ IsDigit(SubSeq(str, 1, Len(str) - 1))

\* str starts with the characters of prefix
StartsWith(str, prefix) ==
    Len(str) >= Len(prefix) /\ SubSeq(str, 1, Len(prefix)) = prefix

ButFirst(str, k) == SubSeq(str, k + 1, Len(str))

ButLast(str) == SubSeq(str, 1, Len(str) - 1)

\* the floor the listed forms stand for, null for a string of no listed form
FloorOfForm(str) ==
    IF IsDigit(str) THEN JInt(DigitsValue(str))
    ELSE IF DigitsThen(str, "F") \/ DigitsThen(str, "kai") THEN JInt(DigitsValue(ButLast(str)))
    ELSE IF StartsWith(str, <<"B">>) /\ IsDigit(ButFirst(str, 1))
         THEN JInt(-DigitsValue(ButFirst(str, 1)))
    ELSE IF StartsWith(str, <<"B">>) /\ DigitsThen(ButFirst(str, 1), "F")
         THEN JInt(-DigitsValue(ButLast(ButFirst(str, 1))))
    ELSE IF StartsWith(str, ChiKa) /\ IsDigit(ButFirst(str, 2))
         THEN JInt(-DigitsValue(ButFirst(str, 2)))
    ELSE IF StartsWith(str, ChiKa) /\ DigitsThen(ButFirst(str, 2), "kai")
         THEN JInt(-DigitsValue(ButLast(ButFirst(str, 2))))
    ELSE JNull

RECURSIVE TrailingDigits(_)
TrailingDigits(str) ==
    IF str = <<>> \/ str[Len(str)] \notin DigitChars THEN <<>>
    ELSE TrailingDigits(ButLast(str)) \o <<str[Len(str)]>>

(* C12: a construction_date string that holds no era letter R, H or S passes     *)
(* through the date conversion unchanged, character for character, lowercase     *)
(* letters and surrounding blanks included.                                      *)
C12_NoEraUnchanged ==
    (/\ unit.f = "date" /\ unit.phase = 1 /\ unit.in.t = "str"
     /\ \A c \in EraLetters : ~HasChar(unit.in.s, c)) =>
        unit.out = unit.in

(* C13: for a construction_date that starts with the era letter R, H or S, holds *)
(* no other letter and ends with the number n, the date conversion returns       *)
(* "YYYY-01-01" with YYYY = 2018+n, 1988+n or 1925+n.                            *)
C13_EraYearFromTrailingNumber ==
    (/\ unit.f = "date" /\ unit.phase = 1 /\ unit.in.t = "str"
     /\ unit.in.s # <<>>
     /\ Head(unit.in.s) \in EraLetters
     /\ \A i \in 2..Len(unit.in.s) : unit.in.s[i] \in DigitChars \cup {"-"}
     /\ TrailingDigits(unit.in.s) # <<>>) =>
        LET n == DigitsValue(TrailingDigits(unit.in.s))
            base == CASE Head(unit.in.s) = "R" -> 2018
                      [] Head(unit.in.s) = "H" -> 1988
                      [] Head(unit.in.s) = "S" -> 1925
        IN  unit.out = JStr(YearFirstDay(base + n))

(* C14: the handler always ends with a result object, of status success or    *)
(* error.  A setup failure ends the run at once with status error, code 500 and  *)
(* processed_emails = 0: no listing, fetch, extraction, insert or ack is made,   *)
(* and the mailbox and the store are left as they were.                          *)
C14_SetupFailureAborts ==
    /\ [](\A s \in Slots :
            /\ inv[s].pc = "done" => inv[s].result.status \in {"success", "error"}
            /\ inv[s].pc \notin {"idle", "done"} => inv[s].result = NoResult
            /\ inv[s].result.status = "error" =>
                  /\ inv[s].pc = "done"
                  /\ inv[s].result.code = 500
                  /\ inv[s].result.processed_emails = 0
                  /\ ~inv[s].listed
                  /\ inv[s].messages = <<>>
                  /\ inv[s].cur = NoCur
                  /\ \A m \in MsgIds : inv[s].log[m] = NoLog
                  /\ BatchesOfRun(inv[s].run) = {})
    /\ [][\A s \in Slots :
            (inv'[s].run # inv[s].run /\ inv'[s].pc = "done") =>
                /\ inv'[s].result.status = "error"
                /\ unread' = unread
                /\ store' = store]_vars

C14_Witness ==
    \E s \in Slots :
        /\ inv[s].pc = "done"
        /\ inv[s].run = 2
        /\ inv[s].result.status = "error"
        /\ unread = {"m2"}
        /\ store # {}

Done(s) == {m \in MsgIds : inv[s].log[m].outcome # "none"}

(* C16: the messages of a listing are processed one at a time in the order of    *)
(* the listing; each one starts from fresh locals, a step on one message writes  *)
(* no other message's result, and whatever the outcomes of the earlier messages  *)
(* (Failed included) every message of the listing gets its outcome before the    *)
(* run ends.                                                                     *)
C16_EveryListedMessageProcessed ==
    /\ [](\A s \in Slots :
            /\ inv[s].pc \in {"fetch", "extract", "insert", "ack", "next"} =>
                  /\ inv[s].index \in 1..Len(inv[s].messages)
                  /\ Done(s) = {inv[s].messages[i] : i \in 1..(inv[s].index - 1)}
            /\ inv[s].pc = "fetch" => inv[s].cur = NoCur
            /\ \A i, j \in 1..Len(inv[s].messages) :
                  inv[s].messages[i] = inv[s].messages[j] => i = j
            /\ (inv[s].pc = "done" /\ inv[s].messages # <<>>) =>
                  /\ Done(s) = Range(inv[s].messages)
                  /\ inv[s].index = Len(inv[s].messages) + 1)
    /\ [][\A s \in Slots :
            inv'[s].run = inv[s].run =>
                /\ inv'[s].messages # inv[s].messages => inv[s].pc = "list"
                /\ \A m \in MsgIds :
                      inv'[s].log[m] # inv[s].log[m] =>
                         /\ inv[s].pc = "next"
                         /\ m = Msg(s)
                         /\ inv[s].log[m] = NoLog
                         /\ inv'[s].log[m].outcome = inv[s].cur.outcome
                         /\ inv'[s].index = inv[s].index + 1]_vars

C16_Witness ==
    \E s \in Slots :
        /\ inv[s].pc = "done"
        /\ inv[s].messages = <<"m2", "m1">>
        /\ inv[s].log["m2"].outcome = "Failed"
        /\ inv[s].log["m1"].outcome = "Persisted"
        /\ inv[s].result.processed_emails = 1

\* the ids of the rows of a batch
IdsOf(batch) == {batch[i].f.id : i \in 1..Len(batch)}

(* C17: when two invocations overlap, nothing keeps the second from listing a    *)
(* message the first has in hand, nor from inserting its records while rows of   *)
(* the same message are in the store: an invocation that lists finds every       *)
(* unread message, an invocation about to insert can always add its batch as a   *)
(* new one, and the batches of one message never share an id.                    *)
C17_OverlapNotPrevented ==
    \A s \in DOMAIN inv :
        /\ (inv[s].pc = "list" /\ unread # {}) =>
              ENABLED (ListMessages(s) /\ Range(inv'[s].messages) = unread)
        /\ inv[s].pc = "insert" =>
              ENABLED (/\ Insert(s)
                       /\ inv'[s].cur.outcome = "Persisted"
                       /\ store' # store
                       /\ Cardinality(BatchesFor(Msg(s))') = Cardinality(BatchesFor(Msg(s))) + 1)
        /\ \A b, c \in store : b # c => IdsOf(b) \cap IdsOf(c) = {}

C17_Witness ==
    /\ Cardinality(BatchesFor("m1")) = 2
    /\ "m1" \in unread
    /\ inv[1].pc = "ack" /\ inv[1].cur.acks = 0
    /\ inv[2].pc = "ack" /\ inv[2].cur.acks = 0
    /\ \A b, c \in BatchesFor("m1") : b # c => IdsOf(b) \cap IdsOf(c) = {}

(* C18: a mark_as_read that fails (the message keeps its UNREAD label) changes  *)
(* nothing else: the store and the outcome of the message stay as they were and  *)
(* no insert is repeated; a Persisted message is then still counted in           *)
(* processed_emails, and after a Persisted or a Skipped message whose ack failed *)
(* the run goes on with the next message of the listing.                         *)
C18_AckFailureOnlyLogged ==
    /\ [][\A s \in Slots :
            /\ (inv[s].pc = "ack" /\ inv'[s].pc # "ack") =>
                  /\ inv'[s].pc = "next"
                  /\ store' = store
                  /\ inv'[s].cur = [inv[s].cur EXCEPT !.acks = 1]
                  /\ unread' \in {unread, unread \ {Msg(s)}}
            /\ (inv[s].pc = "next" /\ inv'[s].pc # "next") =>
                  /\ store' = store
                  /\ inv'[s].pc = IF inv[s].index < Len(inv[s].messages) THEN "fetch" ELSE "done"
                  /\ inv'[s].log[Msg(s)].outcome = inv[s].cur.outcome
                  /\ inv[s].cur.outcome = "Persisted" =>
                        /\ inv'[s].processed_emails = Append(inv[s].processed_emails, Msg(s))
                        /\ inv'[s].processed_count = inv[s].processed_count + 1]_vars
    /\ [](\A s \in Slots :
            (inv[s].pc = "done" /\ inv[s].listed) =>
                /\ inv[s].result.processed_emails = Cardinality(Persisted(s))
                /\ \A m \in Persisted(s) :
                      Cardinality(BatchesFor(m) \cap BatchesOfRun(inv[s].run)) = 1)

C18_Witness ==
    \E s \in Slots :
        /\ inv[s].pc = "done"
        /\ inv[s].messages = <<"m1", "m2">>
        /\ inv[s].log["m1"].outcome = "Persisted"
        /\ inv[s].log["m2"].outcome = "Skipped"
        /\ inv[s].log["m1"].acks = 1 /\ inv[s].log["m2"].acks = 1
        /\ unread = {"m1", "m2"}
        /\ inv[s].result.processed_emails = 1
        /\ Cardinality(store) = 1

\* the leaves of a MIME tree in depth-first order
RECURSIVE LeavesOf(_)
RECURSIVE LeavesOfAll(_)
LeavesOfAll(parts) ==
    IF parts = <<>> THEN <<>> ELSE LeavesOf(Head(parts)) \o LeavesOfAll(Tail(parts))

LeavesOf(part) ==
    IF part.mime = "multipart" THEN LeavesOfAll(part.parts)
    ELSE <<part>> \o LeavesOfAll(part.parts)

\* the texts, in depth-first order, of the leaves of a type that decode to a
\* text that is not empty
TextsOf(tree, mime) ==
    LET found == SelectSeq(LeavesOf(tree),
                           LAMBDA l : /\ l.mime = mime /\ l.data.present /\ l.data.ok
                                      /\ l.data.text # <<>>)
    IN  [i \in 1..Len(found) |-> found[i].data.text]

(* C19: for every MIME tree the decoded body is the text of the first text/plain *)
(* leaf in depth-first order (not of a later one); failing that, the visible     *)
(* text of the first text/html leaf; failing that, empty.  A leaf that does not  *)
(* decode is passed over.                                                        *)
C19_FirstLeafWins ==
    (unit.f = "decode" /\ unit.phase = 1) =>
        LET plain == TextsOf(unit.in, "text/plain")
            html == TextsOf(unit.in, "text/html")
        IN  unit.out = IF plain # <<>> THEN plain[1]
                       ELSE IF html # <<>> THEN GetText(html[1])
                       ELSE <<>>

\* the numeric value of v in units of 1/Scale, where v is a number or a string
\* that reads as one
NumericOf(v) ==
    CASE v.t = "int" -> [ok |-> TRUE, val |-> v.n * Scale]
      [] v.t = "float" -> [ok |-> TRUE, val |-> v.n]
      [] v.t = "str" -> ParseFloat(v.s)
      [] OTHER -> [ok |-> FALSE]

(* C20: each field conversion is total: for every JSON value of the field (null, *)
(* numbers with 0, infinite and NaN ones, strings, arrays, objects) it returns   *)
(* an integer (a string for the date) or null and never raises, so that the save *)
(* of the record succeeds whenever the store accepts the rows; building_age is   *)
(* the numeric value truncated toward zero.                                      *)
C20_ConvertersTotal ==
    (unit.f = "normalize" /\ unit.phase = 1) =>
        LET out == ConvertField(unit.field, unit.in)
            num == NumericOf(unit.in)
        IN  /\ out.t # "raise"
            /\ unit.field = "construction_date" => out.t \in {"str", "null"}
            /\ unit.field # "construction_date" => out.t \in {"int", "null"}
            /\ (unit.field = "building_age" /\ num.ok) => out = JInt(TruncDiv(num.val, Scale))
            /\ unit.out.saved = unit.accepted
            /\ unit.accepted => unit.out.rows = <<JObj(unit.field :> out)>>

\* the stages in the order of the data flow: every record is normalized, then the
\* normalized records are filtered, then the kept ones are assembled; an exception
\* on the way (an element that is no object, a converter that raises) ends the
\* message with nothing handed to the store
NormalizeFirst(list, email_id, run) ==
    IF list = <<>> THEN <<>>
    ELSE IF ~AllRecords(list) THEN <<>>
    ELSE IF ConvertRaises(list) THEN <<>>
    ELSE PrepareAll(filter_valid_properties(ConvertAll(list)), email_id, run)

(* C21: for every extraction result the batch handed to the store by the code's *)
(* order of stages (filter, assemble, normalize, insert) is the batch that the  *)
(* order normalize, filter, assemble, insert hands to it.                       *)
C21_StageOrdersAgree ==
    (unit.f = "order" /\ unit.phase = 1) =>
        unit.out = NormalizeFirst(unit.in, "m1", 1)

\* C21, its two supporting facts: normalization leaves price and the provenance
\* columns as they are, and the filter keeps the same records before and after it
C21_NormalizationKeepsFilterFields ==
    (unit.f = "order" /\ unit.phase = 1 /\ AllRecords(unit.in) /\ ~ConvertRaises(unit.in)) =>
        /\ \A i \in 1..Len(unit.in) : HasPrice(ConvertRecord(unit.in[i])) = HasPrice(unit.in[i])
        /\ \A i \in 1..Len(unit.out) :
              \A k \in {"price", "id", "email_id"} :
                 unit.out[i].f[k] = PrepareAll(filter_valid_properties(unit.in), "m1", 1)[i].f[k]

\* the rows of a batch all carry a price
AllPriced(batch) == \A i \in 1..Len(batch) : batch[i].f.price # JNull

(* C22: every run ends with a result.  Each message of the listing gets one     *)
(* outcome (Skipped, Failed or Persisted), which is not changed afterwards,     *)
(* after at most 3 extraction calls, at most one insert and at most one ack;    *)
(* a batch handed to the store is never empty and holds no record whose price   *)
(* is null; a listing call that fails ends the run at once with a result that   *)
(* counts 0 messages, no message fetched, inserted or acked.                    *)
C22_RunTerminatesWithinBounds ==
    /\ [](\A s \in Slots :
            /\ Cur(s).attempt <= 3
            /\ Cur(s).inserts <= 1
            /\ Cur(s).acks <= 1
            /\ Cur(s).outcome \in {"none", "Skipped", "Failed", "Persisted"}
            /\ inv[s].pc = "next" => Cur(s).outcome # "none"
            /\ Cur(s).outcome # "none" => inv[s].pc \in {"ack", "next"}
            /\ inv[s].pc = "insert" =>
                  /\ Cur(s).inserts = 0
                  /\ Cur(s).processed_properties # <<>>
                  /\ AllPriced(Cur(s).processed_properties)
            /\ inv[s].pc = "ack" => Cur(s).acks = 0
            /\ \A m \in MsgIds :
                  /\ inv[s].log[m].acks <= 1
                  /\ inv[s].log[m].outcome \in {"none", "Skipped", "Failed", "Persisted"}
            /\ inv[s].pc = "done" =>
                  /\ inv[s].result.status \in {"success", "error"}
                  /\ Done(s) = Range(inv[s].messages)
            /\ inv[s].pc # "done" => inv[s].result = NoResult
            /\ (inv[s].pc = "done" /\ ~inv[s].listed /\ inv[s].result.status = "success") =>
                  /\ inv[s].result.processed_emails = 0
                  /\ inv[s].result.total_emails = 0
                  /\ inv[s].messages = <<>>
                  /\ BatchesOfRun(inv[s].run) = {})
    /\ [](\A b \in store : b # <<>> /\ AllPriced(b))
    /\ [][\A s \in Slots :
            inv'[s].run = inv[s].run =>
                /\ Cur(s).outcome # "none" =>
                      \/ inv'[s].cur.outcome = Cur(s).outcome
                      \/ inv[s].pc = "next" /\ inv'[s].log[Msg(s)].outcome = Cur(s).outcome
                /\ \A m \in MsgIds :
                      inv[s].log[m].outcome # "none" => inv'[s].log[m] = inv[s].log[m]
                /\ inv[s].pc = "done" => inv'[s] = inv[s]
                /\ (inv[s].pc = "list" /\ ~inv'[s].listed) =>
                      /\ inv'[s].pc = "done"
                      /\ unread' = unread /\ store' = store]_vars
    /\ \A s \in Slots : (inv[s].pc \notin {"idle", "done"}) ~> (inv[s].pc = "done")

\* the second message of a listing is persisted on the third extraction call,
\* with one insert and one ack, after the first one failed
C22_Witness ==
    \E s \in Slots :
        /\ inv[s].pc = "next"
        /\ inv[s].index = 2
        /\ inv[s].log[inv[s].messages[1]].outcome = "Failed"
        /\ Cur(s).attempt = 3
        /\ Cur(s).kinds = <<"transport", "object", "array">>
        /\ Cur(s).outcome = "Persisted"
        /\ Cur(s).inserts = 1
        /\ Cur(s).acks = 1
        /\ Cardinality(BatchesOfRun(inv[s].run)) = 1

====
